---- MODULE Spec2Model ----
(***************************************************************************)
(* Model of ripgrepjs (src/lib.rs): multithreadedSearchDirectory walks a   *)
(* directory tree on the Rayon pool, every file is streamed through a      *)
(* Searcher whose Sink (JSCallbackSink) sends one closure per match over    *)
(* the Neon Channel, and the JavaScript thread runs the closures, each of   *)
(* which builds the record and calls the JavaScript callback.               *)
(***************************************************************************)
EXTENDS Integers, Sequences, FiniteSets, TLC

(* ------------------------------ bounds --------------------------------- *)

\* Directory entries below the root: the nodes 1..NumNodes.
NumNodes == 2
\* Width of the Rayon pool.
PoolWidth == 2
\* Largest number of faulty nodes in the tree.
MaxFaults == 1

Root == 0
Nodes == 0..NumNodes
Entries == 1..NumNodes
Threads == 1..PoolWidth
\* The afterContext / beforeContext values drawn for the options.
ContextSizes == {0, 1}

\* The directory whose listing can hold node n: nodes 1 and 2 belong to the
\* root, the next two to directory 1, and so on.
Home(n) == (n - 1) \div 2

(* ------------------------- files and Searcher -------------------------- *)

\* A line of a file: its text and whether its bytes are valid UTF-8.
Ln(t, ok) == [text |-> t, utf8 |-> ok]

\* A file is a sequence of chunks; a chunk the pattern matches (hit) is one
\* match of one or more lines, any other chunk is one line.
Chunk(h, ls) == [hit |-> h, lines |-> ls]

\* The files of the model, by name.
FileChunks(name) ==
    CASE name = "nomatch" ->
            << Chunk(FALSE, << Ln("x", TRUE) >>) >>
      [] name = "context" ->
            << Chunk(FALSE, << Ln("x", TRUE) >>), Chunk(TRUE, << Ln("hit", TRUE) >>),
               Chunk(FALSE, << Ln("y", TRUE) >>), Chunk(FALSE, << Ln("z", TRUE) >>) >>
      [] name = "twomatch" ->
            << Chunk(TRUE, << Ln("a", TRUE) >>), Chunk(FALSE, << Ln("b", TRUE) >>),
               Chunk(TRUE, << Ln("c", TRUE) >>) >>
      [] name = "badutf8" ->
            << Chunk(TRUE, << Ln("m", TRUE), Ln("n", TRUE) >>),
               Chunk(TRUE, << Ln("v", TRUE), Ln("?", FALSE) >>) >>

\* A match of several lines needs multiline search.
Contents(multiline) ==
    {"nomatch", "context", "twomatch"} \cup (IF multiline THEN {"badutf8"} ELSE {})

RECURSIVE LinesBefore(_, _)
LinesBefore(content, i) ==
    IF i <= 1 THEN 0 ELSE LinesBefore(content, i - 1) + Len(content[i - 1].lines)

\* Chunk i is a context line: it follows a match within afterContext lines or
\* precedes one within beforeContext lines, with no match in between.
IsContext(content, i, o) ==
    /\ ~content[i].hit
    /\ \/ \E j \in 1..(i - 1) :
             /\ content[j].hit
             /\ i - j <= o.after_context
             /\ \A k \in (j + 1)..i : ~content[k].hit
       \/ \E j \in (i + 1)..Len(content) :
             /\ content[j].hit
             /\ j - i <= o.before_context
             /\ \A k \in i..(j - 1) : ~content[k].hit

\* SearcherBuilder::line_number: the event carries a line number when enabled.
LineNumberOf(content, i, o) ==
    IF o.include_line_numbers THEN << LinesBefore(content, i) + 1 >> ELSE << >>

RECURSIVE EventsFrom(_, _, _)
EventsFrom(content, i, o) ==
    IF i > Len(content) THEN << >>
    ELSE LET rest == EventsFrom(content, i + 1, o)
             ev(k) == [kind |-> k, lines |-> content[i].lines,
                       line_number |-> LineNumberOf(content, i, o), chunk |-> i]
         IN  IF content[i].hit THEN << ev("match") >> \o rest
             ELSE IF IsContext(content, i, o) THEN << ev("context") >> \o rest
             ELSE rest

\* The events Searcher::search_path hands to the sink for a file, in order.
SearcherEvents(content, o) == EventsFrom(content, 1, o)

(* ------------------------------- state --------------------------------- *)

VARIABLES
    opts,       \* the options object the entry point is called with
    config,     \* the SearcherOptions and MatcherOptions built from it
    width,      \* number of threads of the Rayon pool
    fs,         \* the directory tree: node -> kind, fault, content (a file name)
    pc,         \* position of the JavaScript thread in multithreaded_search_directory
    result,     \* what the entry point gave back to its caller
    dirState,   \* per node: state of search_directory_inner on that directory
    full,       \* per directory: try_for_each_init has seen an Err (short-circuit flag)
    panicked,   \* per directory: a task of its parallel loop panicked
    entry,      \* per entry: state of its task in the parent's parallel loop
    stack,      \* per pool thread: the tasks it is inside, innermost last
    scanned,    \* per node: number of times search_path was started on it
    handed,     \* per node: number of events the Searcher handed to the sink
    listed,     \* the directories read_dir was called on
    errs,       \* the errors that occurred: <<node, kind>>
    queue,      \* the closures sent on the Channel and not yet run
    active,     \* the invocations of the JavaScript callback in progress
    delivered,  \* the records the callback was invoked with, in order
    dropped,    \* the closures that threw before calling the callback
    failures    \* the positions in delivered of the callback invocations that threw

vars == << opts, config, width, fs, pc, result, dirState, full, panicked, entry, stack, scanned,
           handed, listed, errs, queue, active, delivered, dropped, failures >>

walkVars == << dirState, full, panicked, entry, stack, scanned, handed, listed, errs >>
jsVars == << active, delivered, dropped, failures >>

\* "other" is an entry that is neither a regular file nor a directory; "absent"
\* is a slot of the tree that holds no entry.
Kinds == {"file", "dir", "other", "absent"}
\* "entry": the DirEntry itself is an Err; "type": file_type() fails; "io": a
\* directory cannot be listed, a file cannot be read to its end.
Faults == {"none", "entry", "type", "io"}

OptionSets ==
    [pattern_valid : BOOLEAN, after_context : ContextSizes, before_context : ContextSizes,
     include_line_numbers : BOOLEAN, multiline_search : BOOLEAN]

Absent == [kind |-> "absent", fault |-> "none", content |-> "nomatch", parent |-> Root]

\* The directory node n is an entry of.
Parent(n) == fs[n].parent

Slot(k, f, c) == [kind |-> k, fault |-> f, content |-> c, parent |-> Root]

\* What a slot of a directory can hold. A slot whose DirEntry or file type
\* cannot be read shows no kind to the walk: it is listed as "other". Only a
\* file or a directory can fail with "io".
SlotChoices(o) ==
    {Absent}
    \cup {Slot("other", f, "nomatch") : f \in {"none", "entry", "type"}}
    \cup {Slot("dir", f, "nomatch") : f \in {"none", "io"}}
    \cup {Slot("file", f, c) : f \in {"none", "io"}, c \in Contents(o.multiline_search)}

\* The slots directory d can fill: its own, and for directory 1 also the
\* slots the root left empty, so that a tree is wide or deep.
Slots(d) ==
    {n \in Entries : Home(n) = d}
    \cup {n \in Entries : d = 1 /\ n # 1 /\ Home(n) = Root /\ fs[n].kind = "absent"}
Children(d) == {n \in Entries : fs[n].kind # "absent" /\ Parent(n) = d}

FaultCount(tree) == Cardinality({n \in Nodes : tree[n].fault # "none"})

\* What read_dir(d) can find in directory d: one entry or nothing per slot.
Listings(d) ==
    {l \in [Slots(d) -> SlotChoices(config.searcher)] :
        FaultCount(fs) + Cardinality({n \in Slots(d) : l[n].fault # "none"}) <= MaxFaults}

Reveal(l, d) ==
    [n \in Nodes |-> IF n \in DOMAIN l /\ l[n].kind # "absent"
                     THEN [l[n] EXCEPT !.parent = d] ELSE fs[n]]

Init ==
    /\ opts \in OptionSets
    /\ config = << >>
    /\ width \in 1..PoolWidth
    /\ \E f \in {"none", "io"} :
          fs = [n \in Nodes |-> IF n = Root
                                THEN [kind |-> "dir", fault |-> f, content |-> "nomatch",
                                      parent |-> Root]
                                ELSE Absent]
    /\ pc = "idle"
    /\ result = "none"
    /\ dirState = [n \in Nodes |-> "unlisted"]
    /\ full = [n \in Nodes |-> FALSE]
    /\ panicked = [n \in Nodes |-> FALSE]
    /\ entry = [n \in Entries |-> "pending"]
    /\ stack = [t \in Threads |-> << >>]
    /\ scanned = [n \in Nodes |-> 0]
    /\ handed = [n \in Nodes |-> 0]
    /\ listed = {}
    /\ errs = {}
    /\ queue = << >>
    /\ active = {}
    /\ delivered = << >>
    /\ dropped = << >>
    /\ failures = {}

(* ----------------------- the JavaScript thread ------------------------- *)

\* The SearcherOptions of the entry point: line_terminator is None.
SearcherOptionsOf(o) ==
    [line_terminator |-> << >>,
     after_context |-> o.after_context,
     before_context |-> o.before_context,
     multiline_search |-> o.multiline_search,
     include_line_numbers |-> o.include_line_numbers]

\* MatcherOptions that read multiLine from an option of their own, left unset.
MatcherOptionsOwnFlag(o, s) ==
    [multi_line |-> FALSE, line_terminator |-> s.line_terminator,
     pattern_valid |-> o.pattern_valid]

\* The MatcherOptions of the entry point: multi_line and line_terminator are
\* copied from the SearcherOptions s built just before.
MatcherOptionsOf(o, s) ==
    [multi_line |-> s.multiline_search, line_terminator |-> s.line_terminator,
     pattern_valid |-> o.pattern_valid]

\* A matcher whose pattern is only compiled by the first scan.
ToMatcherLazy(m) == "Ok"

\* MatcherOptions::to_matcher: RegexMatcherBuilder::build fails on a bad pattern.
ToMatcher(m) == IF m.pattern_valid THEN "Ok" ELSE "Regex"

\* multithreaded_search_directory builds the two option structs and calls
\* search_directory_with_rayon, up to its call of search_directory_inner.
SearchDirectoryWithRayon ==
    /\ pc = "idle"
    /\ LET s == SearcherOptionsOf(opts)
           m == MatcherOptionsOf(opts, s)
       IN  /\ config' = [searcher |-> s, matcher |-> m]
           /\ IF ToMatcher(m) = "Ok"
              THEN pc' = "walk" /\ result' = result
              ELSE pc' = "thrown" /\ result' = ToMatcher(m)
    /\ UNCHANGED << opts, width, fs, walkVars, queue, jsVars >>

\* search_directory_inner on the root: read_dir(path)?, then the JavaScript
\* thread blocks in the pool until the parallel loop is over.
SearchRoot ==
    /\ pc = "walk"
    /\ listed' = listed \cup {Root}
    /\ IF fs[Root].fault = "io"
       THEN /\ pc' = "thrown"
            /\ result' = "IO"
            /\ errs' = errs \cup {<< Root, "list" >>}
            /\ UNCHANGED << fs, dirState >>
       ELSE /\ \E l \in Listings(Root) : fs' = Reveal(l, Root)
            /\ dirState' = [dirState EXCEPT ![Root] = "running"]
            /\ pc' = "blocked"
            /\ UNCHANGED << result, errs >>
    /\ UNCHANGED << opts, config, width, full, panicked, entry, stack, scanned, handed, queue, jsVars >>

(* --------------------------- the Rayon pool ---------------------------- *)

Top(s) == s[Len(s)]
Pop(s) == SubSeq(s, 1, Len(s) - 1)
Frame(n, k, p) == [node |-> n, kind |-> k, pos |-> 0, pair |-> p]

\* The (Searcher, Sink) pairs held by the tasks in progress.
PairsInUse == UNION {{stack[t][i].pair : i \in DOMAIN stack[t]} : t \in Threads}

\* One (Searcher, Sink) pair per pool thread, made when the thread starts.
InitPerThread(t) == t

\* The init closure of try_for_each_init makes a new (Searcher, Sink) pair for
\* the run of entries thread t is about to work through; the pair is named by
\* the lowest number no task in progress holds.
InitPair(t) ==
    CHOOSE k \in 1..(NumNodes + 1) :
        k \notin PairsInUse /\ \A j \in 1..(k - 1) : j \in PairsInUse

\* A pool whose threads take a task only when they are inside no other.
CanTakeIdleOnly(t) == stack[t] = << >>

\* A pool thread takes a task when it is idle or while it waits, inside a
\* nested parallel loop, for a subdirectory to finish.
CanTake(t) == IF stack[t] = << >> THEN TRUE ELSE Top(stack[t]).kind = "descend"

\* try_for_each_init hands out an entry of d only while no task of d returned Err.
Takeable(t, e) ==
    /\ t \in 1..width
    /\ pc = "blocked"
    /\ fs[e].kind # "absent"
    /\ entry[e] = "pending"
    /\ dirState[Parent(e)] = "running"
    /\ ~full[Parent(e)]
    /\ CanTake(t)

\* The parallel loop of d is over: no task is running, and a task that never
\* started was cut off by the short-circuit or lies behind a panicked task.
DirComplete(d) ==
    /\ dirState[d] = "running"
    /\ \A c \in Children(d) :
          /\ entry[c] # "running"
          /\ entry[c] = "pending" => full[d] \/ panicked[d]

\* `if let Ok(entry) = entry` fails: the task returns Ok(()).
EntryErr(t, e) ==
    /\ Takeable(t, e)
    /\ fs[e].fault = "entry"
    /\ entry' = [entry EXCEPT ![e] = "done"]
    /\ errs' = errs \cup {<< e, "entry" >>}
    /\ UNCHANGED << opts, config, width, fs, pc, result, dirState, full, panicked, stack, scanned, handed,
                    listed, queue, jsVars >>

\* `entry.file_type()?` fails: the task returns Err.
FileTypeErr(t, e) ==
    /\ Takeable(t, e)
    /\ fs[e].fault = "type"
    /\ entry' = [entry EXCEPT ![e] = "failed"]
    /\ full' = [full EXCEPT ![Parent(e)] = TRUE]
    /\ errs' = errs \cup {<< e, "type" >>}
    /\ UNCHANGED << opts, config, width, fs, pc, result, dirState, panicked, stack, scanned, handed,
                    listed, queue, jsVars >>

\* Neither a file nor a directory: the task returns Ok(()).
OtherEntry(t, e) ==
    /\ Takeable(t, e)
    /\ fs[e].fault = "none"
    /\ fs[e].kind = "other"
    /\ entry' = [entry EXCEPT ![e] = "done"]
    /\ UNCHANGED << opts, config, width, fs, pc, result, dirState, full, panicked, stack, scanned, handed,
                    listed, errs, queue, jsVars >>

\* file_type.is_file(): searcher.search_path(matcher, entry.path(), sink) starts.
StartScan(t, e) ==
    /\ Takeable(t, e)
    /\ fs[e].fault \in {"none", "io"}
    /\ fs[e].kind = "file"
    /\ entry' = [entry EXCEPT ![e] = "running"]
    /\ stack' = [stack EXCEPT ![t] = Append(@, Frame(e, "scan", InitPair(t)))]
    /\ scanned' = [scanned EXCEPT ![e] = @ + 1]
    /\ UNCHANGED << opts, config, width, fs, pc, result, dirState, full, panicked, handed, listed,
                    errs, queue, jsVars >>

\* file_type.is_dir(): search_directory_inner(entry.path(), ..) starts with
\* read_dir(path)?; its Err is the task's Err.
Descend(t, e) ==
    /\ Takeable(t, e)
    /\ fs[e].fault \in {"none", "io"}
    /\ fs[e].kind = "dir"
    /\ listed' = listed \cup {e}
    /\ IF fs[e].fault = "io"
       THEN /\ entry' = [entry EXCEPT ![e] = "failed"]
            /\ full' = [full EXCEPT ![Parent(e)] = TRUE]
            /\ errs' = errs \cup {<< e, "list" >>}
            /\ UNCHANGED << fs, dirState, stack >>
       ELSE /\ \E l \in Listings(e) : fs' = Reveal(l, e)
            /\ entry' = [entry EXCEPT ![e] = "running"]
            /\ dirState' = [dirState EXCEPT ![e] = "running"]
            /\ stack' = [stack EXCEPT ![t] = Append(@, Frame(e, "descend", InitPair(t)))]
            /\ UNCHANGED << full, errs >>
    /\ UNCHANGED << opts, config, width, pc, result, panicked, scanned, handed, queue, jsVars >>

(* ------------------------------ the sink ------------------------------- *)

\* std::str::from_utf8(line) of JSCallbackSink::matched.
FromUtf8(line) == IF line.utf8 THEN [ok |-> TRUE, s |-> line.text]
                  ELSE [ok |-> FALSE, s |-> "Utf8Error"]

\* The closure JSCallbackSink::matched builds: the line number and the decoded
\* lines it captured (src names the event, for the properties only).
Closure(ev, n) ==
    [line_number |-> ev.line_number,
     lines |-> [i \in 1..Len(ev.lines) |-> FromUtf8(ev.lines[i])],
     src |-> [file |-> n, chunk |-> ev.chunk]]

\* A channel that hands the newest closure out first.
ChannelSendLifo(q, c) == << c >> \o q

\* A channel that holds one closure and discards what is sent while it is full.
ChannelSendDropping(q, c) == IF q = << >> THEN << c >> ELSE q

\* Channel::send: the closure joins the queue of the JavaScript thread.
ChannelSend(q, c) == Append(q, c)

\* The scan a thread is inside, and the events of its file.
Scanning(t) == stack[t] # << >> /\ Top(stack[t]).kind = "scan"
EventsOf(n) == SearcherEvents(FileChunks(fs[n].content), config.searcher)
Advance(t) == [stack EXCEPT ![t] = Append(Pop(@), [Top(@) EXCEPT !.pos = @ + 1])]
Handed(t) == [handed EXCEPT ![Top(stack[t]).node] = @ + 1]

\* An object that holds only the line the match starts on.
RecordFirstLine(c) ==
    IF c.line_number = << >> THEN [matchedLines |-> << c.lines[1].s >>]
    ELSE [matchedLines |-> << c.lines[1].s >>, lineNumber |-> c.line_number[1]]

\* The object the closure builds: lineNumber only when the event has one.
Record(c) ==
    LET ls == [i \in 1..Len(c.lines) |-> c.lines[i].s]
    IN  IF c.line_number = << >> THEN [matchedLines |-> ls]
        ELSE [matchedLines |-> ls, lineNumber |-> c.line_number[1]]

\* The closure throws at the first line that did not decode.
Throws(c) == \E i \in 1..Len(c.lines) : ~c.lines[i].ok

\* A sink that calls the callback itself, on the pool thread of the scan.
MatchedOnWorker(t) ==
    /\ Scanning(t)
    /\ LET f == Top(stack[t])
           c == Closure(EventsOf(f.node)[f.pos + 1], f.node)
       IN  /\ f.pos < Len(EventsOf(f.node))
           /\ EventsOf(f.node)[f.pos + 1].kind = "match"
           /\ ~Throws(c)
           /\ active' = active \cup {[by |-> t, at |-> Len(delivered) + 1]}
           /\ delivered' = Append(delivered, [kind |-> "record", record |-> Record(c),
                                              src |-> c.src])
    /\ stack' = Advance(t)
    /\ handed' = Handed(t)
    /\ UNCHANGED << opts, config, width, fs, pc, result, dirState, full, panicked, entry, scanned,
                    listed, errs, queue, dropped, failures >>

\* The next event of the scan thread t is inside is a match.
AtMatch(t) ==
    /\ Scanning(t)
    /\ Top(stack[t]).pos < Len(EventsOf(Top(stack[t]).node))
    /\ EventsOf(Top(stack[t]).node)[Top(stack[t]).pos + 1].kind = "match"

\* A sink that hands its closure over only once the consumer has taken the
\* earlier ones.
MatchedBlocking(t) ==
    /\ AtMatch(t)
    /\ queue = << >>
    /\ LET f == Top(stack[t]) IN
          queue' = ChannelSend(queue, Closure(EventsOf(f.node)[f.pos + 1], f.node))
    /\ stack' = Advance(t)
    /\ handed' = Handed(t)
    /\ UNCHANGED << opts, config, width, fs, pc, result, dirState, full, panicked, entry,
                    scanned, listed, errs, jsVars >>

\* The Searcher reaches a match: JSCallbackSink::matched sends a closure and
\* returns Ok(true).
Matched(t) ==
    /\ Scanning(t)
    /\ LET f == Top(stack[t]) IN
          /\ f.pos < Len(EventsOf(f.node))
          /\ EventsOf(f.node)[f.pos + 1].kind = "match"
          /\ queue' = ChannelSend(queue, Closure(EventsOf(f.node)[f.pos + 1], f.node))
    /\ stack' = Advance(t)
    /\ handed' = Handed(t)
    /\ UNCHANGED << opts, config, width, fs, pc, result, dirState, full, panicked, entry, scanned,
                    listed, errs, jsVars >>

\* The Searcher reaches a context line: JSCallbackSink does not override
\* Sink::context, whose default returns Ok(true) and does nothing else.
Context(t) ==
    /\ Scanning(t)
    /\ LET f == Top(stack[t]) IN
          /\ f.pos < Len(EventsOf(f.node))
          /\ EventsOf(f.node)[f.pos + 1].kind = "context"
    /\ stack' = Advance(t)
    /\ handed' = Handed(t)
    /\ UNCHANGED << opts, config, width, fs, pc, result, dirState, full, panicked, entry, scanned,
                    listed, errs, queue, jsVars >>

\* search_path returns Ok(()): the task returns Ok(()).
ScanEnd(t) ==
    /\ Scanning(t)
    /\ LET f == Top(stack[t]) IN
          /\ f.pos = Len(EventsOf(f.node))
          /\ fs[f.node].fault = "none"
          /\ entry' = [entry EXCEPT ![f.node] = "done"]
    /\ stack' = [stack EXCEPT ![t] = Pop(@)]
    /\ UNCHANGED << opts, config, width, fs, pc, result, dirState, full, panicked, scanned, handed,
                    listed, errs, queue, jsVars >>

\* search_path returns Err (the file cannot be opened or read, the heap limit
\* is exceeded), at any point of the scan: `.unwrap()` panics in the task.
ScanFail(t) ==
    /\ Scanning(t)
    /\ LET f == Top(stack[t]) IN
          /\ fs[f.node].fault = "io"
          /\ entry' = [entry EXCEPT ![f.node] = "panicked"]
          /\ panicked' = [panicked EXCEPT ![Parent(f.node)] = TRUE]
          /\ errs' = errs \cup {<< f.node, "scan" >>}
    /\ stack' = [stack EXCEPT ![t] = Pop(@)]
    /\ UNCHANGED << opts, config, width, fs, pc, result, dirState, full, scanned, handed, listed, queue, jsVars >>

\* The nested search_directory_inner returns to the task that called it: a
\* panic of the nested loop resumes in the task, its Err is the task's Err.
Ascend(t) ==
    /\ stack[t] # << >>
    /\ Top(stack[t]).kind = "descend"
    /\ LET d == Top(stack[t]).node IN
          /\ DirComplete(d)
          /\ dirState' = [dirState EXCEPT ![d] = "finished"]
          /\ entry' = [entry EXCEPT ![d] = IF panicked[d] THEN "panicked"
                                           ELSE IF full[d] THEN "failed" ELSE "done"]
          /\ panicked' = [panicked EXCEPT ![Parent(d)] = @ \/ panicked[d]]
          /\ full' = [full EXCEPT ![Parent(d)] = @ \/ (full[d] /\ ~panicked[d])]
    /\ stack' = [stack EXCEPT ![t] = Pop(@)]
    /\ UNCHANGED << opts, config, width, fs, pc, result, scanned, handed, listed, errs, queue, jsVars >>

\* An entry point that takes back the closures still queued when it fails.
ReturnRetracting ==
    /\ pc = "blocked"
    /\ DirComplete(Root)
    /\ dirState' = [dirState EXCEPT ![Root] = "finished"]
    /\ result' = IF panicked[Root] THEN "panic" ELSE IF full[Root] THEN "IO" ELSE "Ok"
    /\ pc' = IF panicked[Root] \/ full[Root] THEN "thrown" ELSE "returned"
    /\ queue' = IF panicked[Root] \/ full[Root] THEN << >> ELSE queue
    /\ UNCHANGED << opts, config, width, fs, full, panicked, entry, stack, scanned, handed,
                    listed, errs, jsVars >>

\* The root's loop is over: search_directory_with_rayon returns and
\* multithreaded_search_directory returns undefined or throws.
Return ==
    /\ pc = "blocked"
    /\ DirComplete(Root)
    /\ dirState' = [dirState EXCEPT ![Root] = "finished"]
    /\ result' = IF panicked[Root] THEN "panic" ELSE IF full[Root] THEN "IO" ELSE "Ok"
    /\ pc' = IF panicked[Root] \/ full[Root] THEN "thrown" ELSE "returned"
    /\ UNCHANGED << opts, config, width, fs, full, panicked, entry, stack, scanned, handed, listed, errs,
                    queue, jsVars >>

(* --------------------- the JavaScript event loop ----------------------- *)

\* The closures run on the thread that called the entry point, so only once
\* that call is over.
LoopFree == pc \in {"returned", "thrown"}

\* A consumer thread of its own, which runs a closure as soon as one is sent.
RunClosureEager ==
    /\ active = {}
    /\ queue # << >>
    /\ queue' = Tail(queue)
    /\ LET c == Head(queue) IN
          IF Throws(c)
          THEN /\ dropped' = Append(dropped, c.src)
               /\ UNCHANGED << active, delivered >>
          ELSE /\ active' = {[by |-> "js", at |-> Len(delivered) + 1]}
               /\ delivered' = Append(delivered, [kind |-> "record", record |-> Record(c),
                                                  src |-> c.src])
               /\ UNCHANGED dropped
    /\ UNCHANGED << opts, config, width, fs, pc, result, walkVars, failures >>

\* The event loop runs the next closure of the Channel: it throws at an
\* undecodable line, before the callback is called, or calls the callback.
RunClosure ==
    /\ LoopFree
    /\ active = {}
    /\ queue # << >>
    /\ queue' = Tail(queue)
    /\ LET c == Head(queue) IN
          IF Throws(c)
          THEN /\ dropped' = Append(dropped, c.src)
               /\ UNCHANGED << active, delivered >>
          ELSE /\ active' = {[by |-> "js", at |-> Len(delivered) + 1]}
               /\ delivered' = Append(delivered, [kind |-> "record", record |-> Record(c),
                                                  src |-> c.src])
               /\ UNCHANGED dropped
    /\ UNCHANGED << opts, config, width, fs, pc, result, walkVars, failures >>

\* The callback returns or throws; the closure's result is discarded by
\* Channel::send, so the loop goes on with the next closure either way.
CallbackReturn ==
    /\ active # {}
    /\ \E a \in active, ok \in BOOLEAN :
          /\ active' = active \ {a}
          /\ failures' = IF ok THEN failures ELSE failures \cup {a.at}
    /\ UNCHANGED << opts, config, width, fs, pc, result, walkVars, queue, delivered, dropped >>

(* --------------------------- specification ----------------------------- *)

Next ==
    \/ SearchDirectoryWithRayon
    \/ SearchRoot
    \/ \E t \in Threads, e \in Entries : EntryErr(t, e)
    \/ \E t \in Threads, e \in Entries : FileTypeErr(t, e)
    \/ \E t \in Threads, e \in Entries : OtherEntry(t, e)
    \/ \E t \in Threads, e \in Entries : StartScan(t, e)
    \/ \E t \in Threads, e \in Entries : Descend(t, e)
    \/ \E t \in Threads : Matched(t)
    \/ \E t \in Threads : Context(t)
    \/ \E t \in Threads : ScanEnd(t)
    \/ \E t \in Threads : ScanFail(t)
    \/ \E t \in Threads : Ascend(t)
    \/ Return
    \/ RunClosure
    \/ CallbackReturn

Spec == Init /\ [][Next]_vars

\* The pool threads and the event loop keep running: a step that can be
\* taken is not put off forever.
FairSpec == Spec /\ WF_vars(Next)

(* ------------------------------ properties ---------------------------- *)

\* The invocation is over and the event loop has run every closure.
Drained == LoopFree /\ queue = << >> /\ active = {}

Files == {n \in Entries : fs[n].kind = "file"}
DoneAt == {i \in DOMAIN delivered : delivered[i].kind = "done"}

\* C1: once a scan has returned and the queue is drained, the callback has
\* been invoked with the completion signal exactly once, as the last delivery.
C1_CompletionSignalOnceLast ==
    (pc = "returned" /\ Drained) =>
        /\ Cardinality(DoneAt) = 1
        /\ delivered[Len(delivered)].kind = "done"

\* C2: at most one invocation of the callback is in progress.
C2_CallbackNeverConcurrent == Cardinality(active) <= 1

\* C2: a callback runs while closures sent by the scans of two files wait.
C2_Witness ==
    /\ Cardinality(active) = 1
    /\ \E i, j \in DOMAIN queue : queue[i].src.file # queue[j].src.file

\* C3: the records of one file are delivered in the order of the Searcher's
\* events (and of their line numbers, when enabled).
C3_PerFileOrder ==
    \A i, j \in DOMAIN delivered :
        (i < j /\ delivered[i].src.file = delivered[j].src.file) =>
            /\ delivered[i].src.chunk < delivered[j].src.chunk
            /\ opts.include_line_numbers =>
                  delivered[i].record.lineNumber < delivered[j].record.lineNumber

\* C3: two records of one file were delivered with a record of another file
\* between them.
C3_Witness ==
    \E i, j, k \in DOMAIN delivered :
        /\ i < k /\ k < j
        /\ delivered[i].src.file = delivered[j].src.file
        /\ delivered[k].src.file # delivered[i].src.file

\* C4: no entry is scanned twice, only regular files are scanned, and when
\* the invocation is over every regular file without an error of its own
\* has been scanned once.
C4_EveryFileScannedOnce ==
    /\ \A n \in Entries : scanned[n] <= 1 /\ (fs[n].kind # "file" => scanned[n] = 0)
    /\ LoopFree => \A n \in Files : fs[n].fault = "none" => scanned[n] = 1

\* C5: when the invocation is over and the only errors were failed file
\* scans, the invocation has returned normally and every other file was scanned.
C5_ScanFailureStaysInTask ==
    (LoopFree /\ errs # {} /\ \A x \in errs : x[2] = "scan") =>
        /\ result = "Ok"
        /\ \A n \in Files : scanned[n] = 1

\* C6: when the invocation is over and the only errors were errors on
\* directory entries below the root, the invocation has returned normally and
\* the task of every other entry has run.
C6_WalkErrorSkipsOnlyEntry ==
    (LoopFree /\ errs # {} /\
     \A x \in errs : x[2] \in {"entry", "type", "list"} /\ x[1] # Root) =>
        /\ result = "Ok"
        /\ \A d \in Nodes : \A n \in Children(d) :
              dirState[d] = "finished" => entry[n] # "pending"

\* C7: no closure is dropped because one of its lines is not valid UTF-8.
C7_UndecodableLineDelivered == dropped = << >>

\* C8: with an invalid pattern the entry point throws at matcher construction:
\* no directory is listed, no file is scanned, nothing is sent or delivered.
C8_InvalidPatternFailsFirst ==
    ~opts.pattern_valid =>
        /\ pc \in {"idle", "thrown"}
        /\ pc = "thrown" => result = "Regex"
        /\ listed = {}
        /\ \A n \in Nodes : scanned[n] = 0
        /\ queue = << >> /\ delivered = << >> /\ active = {}

\* C8: the entry point has thrown on an invalid pattern.
C8_Witness == ~opts.pattern_valid /\ pc = "thrown"

\* C9: once a scan has returned and the queue is drained, every context event
\* of every scanned file has been delivered.
C9_ContextEventsDelivered ==
    (pc = "returned" /\ Drained) =>
        \A n \in Files : \A k \in 1..Len(EventsOf(n)) :
            (scanned[n] = 1 /\ entry[n] = "done" /\ EventsOf(n)[k].kind = "context") =>
                \E i \in DOMAIN delivered :
                    delivered[i].src = [file |-> n, chunk |-> EventsOf(n)[k].chunk]

\* A scan has handed a match of several lines to the sink.
MultiLineHanded ==
    \E n \in Files : \E k \in 1..handed[n] :
        EventsOf(n)[k].kind = "match" /\ Len(EventsOf(n)[k].lines) > 1

\* C10: an invocation one of whose callback invocations threw has failed:
\* the entry point has thrown and did not return normally.
C10_DeliveryErrorIsFatal ==
    failures # {} => pc = "thrown" /\ result # "Ok"

\* C11: a record sent by a scan that has completed can be delivered while
\* another scan is still running: when it is next in the queue and no callback
\* is in progress, the event loop can run its closure.
C11_CompletedScansNotStarved ==
    (/\ queue # << >>
     /\ active = {}
     /\ entry[Head(queue).src.file] = "done"
     /\ \E t \in Threads : Scanning(t)) => ENABLED RunClosure

\* C12: the option structs the entry point builds agree: multi_line of the
\* MatcherOptions equals multiline_search of the SearcherOptions, and both
\* carry the same line terminator.
C12_ConfigsAgree ==
    config # << >> =>
        /\ config.matcher.multi_line = config.searcher.multiline_search
        /\ config.matcher.line_terminator = config.searcher.line_terminator

\* C12: both structs were built for a multiline search and a scan found a
\* match of several lines.
C12_Witness ==
    /\ config # << >>
    /\ config.searcher.multiline_search
    /\ MultiLineHanded

\* The match events handed to the sink so far whose lines all decode as UTF-8.
Decodable(ev) == \A i \in DOMAIN ev.lines : ev.lines[i].utf8
DecodableHanded ==
    UNION {{<< n, k >> : k \in {j \in 1..handed[n] :
                                  EventsOf(n)[j].kind = "match" /\ Decodable(EventsOf(n)[j])}} :
           n \in Files}

\* The deliveries made for event k of file n.
DeliveriesOf(n, k) ==
    {i \in DOMAIN delivered :
        delivered[i].src = [file |-> n, chunk |-> EventsOf(n)[k].chunk]}

\* C13: once the queue is drained, every match event handed to the sink whose
\* lines all decode has exactly one callback invocation, and there are as many
\* invocations as such events.
C13_OneInvocationPerMatch ==
    Drained =>
        /\ \A x \in DecodableHanded : Cardinality(DeliveriesOf(x[1], x[2])) = 1
        /\ Len(delivered) = Cardinality(DecodableHanded)

\* C13: the queue is drained after the scans of two files handed four match
\* events to the sink.
C13_Witness ==
    /\ Drained
    /\ Cardinality(DecodableHanded) >= 4
    /\ \E x, y \in DecodableHanded : x[1] # y[1]

\* C14: whenever a scan is at a match, the sink's matched can enqueue its
\* closure and let the scan continue, whatever the state of the consumer.
C14_MatchedNeverWaits ==
    \A t \in Threads : AtMatch(t) => ENABLED Matched(t)

\* C14: a scan is at a match while two closures sent earlier have not been run.
C14_Witness ==
    \E t \in Threads : AtMatch(t) /\ Len(queue) >= 2

\* C18: the callback is invoked, and a closure is run, only after the entry
\* point has returned or thrown.
C18_NoCallbackDuringScan ==
    (active # {} \/ delivered # << >> \/ dropped # << >>) => pc \in {"returned", "thrown"}

\* C18: the entry point has returned and the callback runs on a record sent
\* during the scan, with further closures waiting.
C18_Witness == pc = "returned" /\ active # {} /\ queue # << >>

\* The closures waiting in the queue for event k of file n.
QueuedOf(n, k) ==
    {i \in DOMAIN queue : queue[i].src = [file |-> n, chunk |-> EventsOf(n)[k].chunk]}

\* C19: after the entry point has thrown, every record enqueued before is
\* either still in the queue or has been delivered, once.
C19_AbortKeepsEnqueued ==
    pc = "thrown" =>
        \A x \in DecodableHanded :
            Cardinality(QueuedOf(x[1], x[2])) + Cardinality(DeliveriesOf(x[1], x[2])) = 1

\* C19: the walk failed after a scan had sent records, the entry point has
\* thrown, and the callback has since been invoked with each of them.
C19_Witness ==
    /\ pc = "thrown"
    /\ result \in {"IO", "panic"}
    /\ Drained
    /\ Cardinality(DecodableHanded) >= 2
    /\ Len(delivered) = Cardinality(DecodableHanded)

\* The event of file n the Searcher raised for chunk ch.
EventAt(n, ch) ==
    EventsOf(n)[CHOOSE k \in DOMAIN EventsOf(n) : EventsOf(n)[k].chunk = ch]

\* C17: every delivered record reproduces its match event: matchedLines holds
\* the event's lines, as many and in the same order, and lineNumber is present
\* exactly when the event carries a line number, and equals it.
C17_RecordReproducesEvent ==
    \A i \in DOMAIN delivered :
        LET r == delivered[i].record
            ev == EventAt(delivered[i].src.file, delivered[i].src.chunk)
        IN  /\ ev.kind = "match"
            /\ Len(r.matchedLines) = Len(ev.lines)
            /\ \A j \in DOMAIN ev.lines : r.matchedLines[j] = ev.lines[j].text
            /\ ("lineNumber" \in DOMAIN r) <=> (ev.line_number # << >>)
            /\ ev.line_number # << >> => r.lineNumber = ev.line_number[1]

\* C17: a record of two lines was delivered with its line number.
C17_Witness ==
    \E i \in DOMAIN delivered :
        /\ Len(delivered[i].record.matchedLines) = 2
        /\ "lineNumber" \in DOMAIN delivered[i].record
        /\ delivered[i].record.lineNumber = 1

\* The tasks in progress: thread and position on its stack.
TasksInProgress == {x \in Threads \X (1..NumNodes) : x[2] <= Len(stack[x[1]])}

\* C15: the matcher, once built, is never changed, and no (Searcher, Sink)
\* pair is held by two tasks in progress, including a task that waits in a
\* descent while its thread runs another task.
C15_PairsExclusive ==
    /\ [](\A x, y \in TasksInProgress :
             stack[x[1]][x[2]].pair = stack[y[1]][y[2]].pair => x = y)
    /\ [][config # << >> => config' = config]_vars

\* C15: a thread scans a file inside a task of its own that waits in a
\* descent; the two tasks hold different pairs.
C15_Witness ==
    \E t \in Threads :
        /\ Len(stack[t]) = 2
        /\ stack[t][1].kind = "descend"
        /\ stack[t][2].kind = "scan"
        /\ stack[t][1].pair # stack[t][2].pair

\* The walk is over: no task is in progress and no directory loop is running.
WalkOver ==
    /\ \A t \in Threads : stack[t] = << >>
    /\ \A n \in Nodes : dirState[n] # "running"
    /\ \A n \in Entries : entry[n] # "running"

\* C16: whatever the tree and the pool width, the walk ends, the entry point
\* returns or throws, and the event loop then runs every closure sent.
C16_WalkTerminates == <>(WalkOver /\ Drained)

\* C16: on a pool of one thread the walk of a tree with a file in a
\* subdirectory is over, the entry point has returned and the queue is drained.
C16_Witness ==
    /\ width = 1
    /\ WalkOver
    /\ pc = "returned"
    /\ Drained
    /\ delivered # << >>
    /\ \E n \in Files : Parent(n) # Root /\ entry[n] = "done"

====
